---- MODULE Spec2Model ----
(***************************************************************************)
(* A model of the salt extension modules of this repository:               *)
(*   _modules/mailman.py  the mailman execution module (the primitives)    *)
(*   _states/mailman.py   the mailman state module (list_present/absent)   *)
(*   _states/rbm_lvm.py   the LVM state module (pv/vg/lv present/absent)   *)
(* One state call runs from pc = its first step to pc = "returned" or      *)
(* pc = "raised" (an exception left the entry point).  The external tools  *)
(* (newlist, add_members, pvcreate, ...) succeed or fail as the            *)
(* environment decides: their outcome is drawn with \E in each step.       *)
(***************************************************************************)
EXTENDS Integers, Sequences, FiniteSets, TLC

VARIABLES
    opts_test,       \* __opts__['test']: the dry-run flag of the call
    op,              \* the entry point being run
    kwargs,          \* its arguments
    pc,              \* the position inside the entry point
    ret,             \* the ret dictionary: result, changes
    calls,           \* the __salt__ primitives invoked so far in this call
    failed,          \* some mutate primitive signalled failure in this run
    callNo,          \* 1: first call, 2: the same call repeated
    mm,              \* the mailman server: one list (exists, password, owner, members)
    lvm,             \* the LVM stack: physical volumes, the volume group, the logical volume
    pre,             \* the mailman server and the LVM stack as the call found them
    dev_i,           \* vg_present: index of the device the loop is at
    size_numerical,  \* lv_present: the local of that name (Unbound until assigned)
    lock,            \* the callers holding the file lock of the mailman list
    proc             \* the concurrent callers of set_owner / set_list_password

vars == <<opts_test, op, kwargs, pc, ret, calls, failed, callNo, mm, lvm,
          pre, dev_i, size_numerical, lock, proc>>

----------------------------------------------------------------------------
(* Bounds of the model *)

MaxOwners == 2      \* longest owner list (actual or desired)
MaxMembers == 2     \* longest members_present list
MaxAbsent == 1      \* longest members_absent list
MaxDevices == 2     \* longest devices list of vg_present
MaxDigits == 3      \* longest run of digits in a size string
MaxProcs == 2       \* concurrent callers of set_owner / set_list_password

----------------------------------------------------------------------------
(* Python values *)

\* A return value of a primitive: True, False, or a non-empty tuple
\* (False, 'message'); "Raise" stands for an exception instead of a value.
PyTruthy(v) == v = "True" \/ v = "Tuple"

\* ret['result']
ResTrue == "True"
ResFalse == "False"
ResNone == "None"

\* Addresses are strings, kept as tuples of characters because is_member
\* uses them as a regular expression.
A_dot == <<"a", ".", "c">>      \* 'a.c'
A_abc == <<"a", "b", "c">>      \* 'abc'
A_x == <<"x">>                  \* 'x'
Addrs == {A_dot, A_abc, A_x}

\* An address string as given by the caller: 'addr' or 'Name <addr>'.
Bare(a) == [name |-> "", addr |-> a]
RawAddrs == {Bare(a) : a \in Addrs} \cup {[name |-> "N", addr |-> A_x]}

\* email.utils.parseaddr: (display name, bare address)
parseaddr(raw) == <<raw.name, raw.addr>>

\* re.match("^" + pat + "$", line) for a pattern of literal characters and
\* '.', which matches any one character.  line is the address followed by a
\* newline; '$' matches before that trailing newline.
RECURSIVE ReMatch(_, _)
ReMatch(pat, s) ==
    IF pat = <<>> THEN s = <<>>
    ELSE /\ s # <<>>
         /\ (Head(pat) = "." \/ Head(pat) = Head(s))
         /\ ReMatch(Tail(pat), Tail(s))

\* The lines list_members prints: the members in the tool's fixed order.
RECURSIVE SetToSeq(_)
SetToSeq(S) ==
    IF S = {} THEN <<>>
    ELSE LET x == CHOOSE y \in S : TRUE IN <<x>> \o SetToSeq(S \ {x})

Range(s) == {s[i] : i \in 1..Len(s)}

\* Sequences over S of length at most n
SeqUpTo(S, n) == UNION {[1..k -> S] : k \in 0..n}

\* list.remove(x): drop the first occurrence of x
RECURSIVE RemoveFirst(_, _)
RemoveFirst(s, x) ==
    IF s = <<>> THEN <<>>
    ELSE IF Head(s) = x THEN Tail(s)
    ELSE <<Head(s)>> \o RemoveFirst(Tail(s), x)

----------------------------------------------------------------------------
(* _modules/mailman.py: the execution module.  Each primitive is an        *)
(* operator from the server state w (and the tool's exit code rc) to the   *)
(* value returned, rv, and the server state afterwards.                    *)

DEFAULT_OWNER == "root@localhost.localdomain"

Sha(p) == <<"sha", p>>
RandomPassword == "random"

\* "%s" % owner, the owner argument of the newlist command line
OwnerArg(o) == IF o.isList THEN "str(list)" ELSE o.items[1]

mailman_list_present(w) == w.exists

add_list(w, kw, rc) ==
    IF mailman_list_present(w) THEN [rv |-> "Tuple", w |-> w]
    ELSE LET owner == IF "owner" \in kw.keys THEN OwnerArg(kw.owner) ELSE DEFAULT_OWNER
             password == IF "password" \in kw.keys THEN kw.password ELSE RandomPassword
         IN IF rc = 0
            THEN [rv |-> "True",
                  w |-> [exists |-> TRUE, password |-> Sha(password),
                         owner |-> <<owner>>, members |-> {}]]
            ELSE [rv |-> "Tuple", w |-> w]

NoList == [exists |-> FALSE, password |-> Sha(RandomPassword), owner |-> <<>>, members |-> {}]

remove_list(w, rc) ==
    IF ~mailman_list_present(w) THEN [rv |-> "True", w |-> w]
    ELSE IF rc = 0 THEN [rv |-> "True", w |-> NoList]
    ELSE [rv |-> "Tuple", w |-> w]

\* What a caller iterating over the value of list_members gets: the member
\* lines, or the two items of the tuple (False, 'List is not present ...').
NotPresentTuple == <<Bare(<<"False">>), Bare(<<"msg">>)>>

list_members(w) ==
    IF ~mailman_list_present(w) THEN NotPresentTuple
    ELSE [i \in 1..Cardinality(w.members) |-> Bare(SetToSeq(w.members)[i])]

is_member(w, email) ==
    IF ~mailman_list_present(w) THEN "Tuple"
    ELSE IF \E line \in w.members : ReMatch(parseaddr(email)[2], line)
         THEN "True" ELSE "False"

\* Line 198: p.communicate('\n'.join(members)), the lines add_members reads:
\* the entries as they were given
AddMembersInput(members) == members

\* the add_members tool subscribes the address of each line it reads
add_member(w, members, rc) ==
    IF ~mailman_list_present(w) THEN [rv |-> "Tuple", w |-> w]
    ELSE IF rc = 0
         THEN [rv |-> "True",
               w |-> [w EXCEPT !.members =
                         @ \cup {parseaddr(m)[2] : m \in Range(AddMembersInput(members))}]]
         ELSE [rv |-> "Tuple", w |-> w]

\* Lines 226-236: strip fullnames; the lines remove_members reads
RemoveMembersInput(members) == [i \in 1..Len(members) |-> Bare(parseaddr(members[i])[2])]

remove_member(w, members, rc) ==
    IF ~mailman_list_present(w) THEN [rv |-> "Tuple", w |-> w]
    ELSE LET del_members == {m.addr : m \in Range(RemoveMembersInput(members))}
         IN IF rc = 0
            THEN [rv |-> "True", w |-> [w EXCEPT !.members = @ \ del_members]]
            ELSE [rv |-> "Tuple", w |-> w]

\* MailList.MailList(name) of a list that does not exist raises.
get_owner(w) == IF w.exists THEN [rv |-> "True", owner |-> w.owner]
                ELSE [rv |-> "Raise", owner |-> <<>>]

\* rc # 0: Save() (or taking the lock) raised; the finally clause unlocks
\* and the exception goes on to the caller.
set_owner(w, owner, rc) ==
    IF ~w.exists THEN [rv |-> "Raise", w |-> w]
    ELSE IF rc = 0 THEN [rv |-> "True", w |-> [w EXCEPT !.owner = owner]]
    ELSE [rv |-> "Raise", w |-> w]

set_list_password(w, password, rc) ==
    IF ~w.exists THEN [rv |-> "Raise", w |-> w]
    ELSE IF password = "" THEN [rv |-> "Tuple", w |-> w]
    ELSE IF rc = 0 THEN [rv |-> "True", w |-> [w EXCEPT !.password = Sha(password)]]
    ELSE [rv |-> "Raise", w |-> w]

check_list_password(w, password) ==
    IF ~w.exists THEN "Raise"
    ELSE IF Sha(password) = w.password THEN "True" ELSE "False"

----------------------------------------------------------------------------
(* _states/mailman.py: the state module *)

NoChanges == [keys |-> {}, Owner |-> <<>>, Subscribed |-> <<>>,
              Unsubscribed |-> <<>>, old |-> 0, new |-> 0]

\* ret as each entry point initialises it
Ret0 == [result |-> ResTrue, changes |-> NoChanges]

\* One invocation of a primitive: its name, its argument, the value returned
Call(fn, arg, rv) == [fn |-> fn, arg |-> arg, rv |-> rv]
PyBool(b) == IF b THEN "True" ELSE "False"

\* What one step of an entry point leaves behind
Step(p, r, c, w, f) == [pc |-> p, ret |-> r, calls |-> c, w |-> w, failed |-> f]

Fails(rv) == rv \in {"False", "Tuple", "Raise"}

\* Lines 69-82: test if the list is present, create it if not
ExistenceStep(rc) ==
    LET c1 == calls \o <<Call("list_present", <<>>, PyBool(mailman_list_present(mm)))>> IN
    IF mailman_list_present(mm) THEN Step("recheck", ret, c1, mm, failed)
    ELSE IF opts_test
         THEN Step("recheck", [ret EXCEPT !.result = ResNone], c1, mm, failed)
    ELSE LET r == add_list(mm, kwargs, rc)
             c2 == c1 \o <<Call("add_list", <<>>, r.rv)>>
         IN IF PyTruthy(r.rv)
            THEN Step("recheck", [ret EXCEPT !.changes.keys = @ \cup {"Add"}],
                      c2, r.w, failed \/ Fails(r.rv))
            ELSE Step("returned", [ret EXCEPT !.result = ResFalse], c2, r.w, TRUE)

\* Lines 84-86: in test mode, a list that would get created ends the call
RecheckStep ==
    LET c1 == calls \o <<Call("list_present", <<>>, PyBool(mailman_list_present(mm)))>> IN
    IF ~mailman_list_present(mm) /\ opts_test
    THEN Step("returned", ret, c1, mm, failed)
    ELSE Step("password", ret, c1, mm, failed)

\* Lines 88-101: check password and set
PasswordStep(rc) ==
    IF "password" \notin kwargs.keys THEN Step("owner", ret, calls, mm, failed)
    ELSE
    LET chk == check_list_password(mm, kwargs.password)
        c1 == calls \o <<Call("check_list_password", <<>>, chk)>>
    IN IF chk = "Raise" THEN Step("raised", ret, c1, mm, failed)
       ELSE IF PyTruthy(chk) THEN Step("owner", ret, c1, mm, failed)
       ELSE IF opts_test
            THEN Step("owner", [ret EXCEPT !.result = ResNone], c1, mm, failed)
       ELSE LET r == set_list_password(mm, kwargs.password, rc)
                c2 == c1 \o <<Call("set_list_password", <<>>, r.rv)>>
            IN IF r.rv = "Raise" THEN Step("raised", ret, c2, r.w, TRUE)
               ELSE IF PyTruthy(r.rv)
                    THEN Step("owner", [ret EXCEPT !.changes.keys = @ \cup {"PW"}],
                              c2, r.w, failed \/ Fails(r.rv))
               ELSE Step("returned", [ret EXCEPT !.result = ResFalse], c2, r.w, TRUE)

\* Lines 114-117: for owner in mm_owner: if not owner in salt_owner:
\* mm_owner.remove(owner).  The list is changed while the loop walks it by
\* index: after a removal the next item has moved into the slot just visited.
RECURSIVE OwnerRemoveLoop(_, _, _, _)
OwnerRemoveLoop(mm_owner, i, salt_owner, updated) ==
    IF i > Len(mm_owner) THEN [mm_owner |-> mm_owner, updated |-> updated]
    ELSE IF mm_owner[i] \notin Range(salt_owner)
         THEN OwnerRemoveLoop(RemoveFirst(mm_owner, mm_owner[i]), i + 1, salt_owner, TRUE)
         ELSE OwnerRemoveLoop(mm_owner, i + 1, salt_owner, updated)

\* Lines 118-121: for owner in salt_owner: if not owner in mm_owner: append
RECURSIVE OwnerAppendLoop(_, _, _, _)
OwnerAppendLoop(mm_owner, i, salt_owner, updated) ==
    IF i > Len(salt_owner) THEN [mm_owner |-> mm_owner, updated |-> updated]
    ELSE IF salt_owner[i] \notin Range(mm_owner)
         THEN OwnerAppendLoop(Append(mm_owner, salt_owner[i]), i + 1, salt_owner, TRUE)
         ELSE OwnerAppendLoop(mm_owner, i + 1, salt_owner, updated)

\* Lines 112-121: sync owners
OwnerSync(mm_owner, salt_owner) ==
    LET a == OwnerRemoveLoop(mm_owner, 1, salt_owner, FALSE)
    IN OwnerAppendLoop(a.mm_owner, 1, salt_owner, a.updated)

\* Lines 106-110: ensure salt_owner is a list
SaltOwner(o) == IF o.isList THEN o.items ELSE <<o.items[1]>>

\* Lines 103-134: compare owners
OwnerStep(rc) ==
    IF "owner" \notin kwargs.keys THEN Step("members_present", ret, calls, mm, failed)
    ELSE
    LET g == get_owner(mm)
        c1 == calls \o <<Call("get_owner", <<>>, g.rv)>>
        s == OwnerSync(g.owner, SaltOwner(kwargs.owner))
    IN IF g.rv = "Raise" THEN Step("raised", ret, c1, mm, failed)
       ELSE IF ~s.updated THEN Step("members_present", ret, c1, mm, failed)
       ELSE IF opts_test
            THEN Step("members_present", [ret EXCEPT !.result = ResNone], c1, mm, failed)
       ELSE LET r == set_owner(mm, s.mm_owner, rc)
                c2 == c1 \o <<Call("set_owner", s.mm_owner, r.rv)>>
            IN IF r.rv = "Raise" THEN Step("raised", ret, c2, r.w, TRUE)
               ELSE IF PyTruthy(r.rv)
                    THEN Step("members_present",
                              [ret EXCEPT !.changes.keys = @ \cup {"Owner"},
                                          !.changes.Owner = s.mm_owner],
                              c2, r.w, failed \/ Fails(r.rv))
               ELSE Step("returned", [ret EXCEPT !.result = ResFalse], c2, r.w, TRUE)

IsMemberCalls(ms) == [i \in 1..Len(ms) |-> Call("is_member", <<ms[i]>>, is_member(mm, ms[i]))]

\* Lines 137-165: check if membership is set correctly
MembersPresentStep(rc) ==
    IF "members_present" \notin kwargs.keys
    THEN Step("members_absent", ret, calls, mm, failed)
    ELSE
    LET NotSubscribed(m) == ~PyTruthy(is_member(mm, m))
        members_add == SelectSeq(kwargs.members_present, NotSubscribed)
        c1 == calls \o IsMemberCalls(kwargs.members_present)
        rec == [ret EXCEPT !.changes.keys = @ \cup {"Subscribed"},
                           !.changes.Subscribed = @ \o members_add]
    IN IF Len(members_add) = 0 THEN Step("members_absent", ret, c1, mm, failed)
       ELSE IF opts_test
            THEN Step("members_absent", [rec EXCEPT !.result = ResNone], c1, mm, failed)
       ELSE LET r == add_member(mm, members_add, rc)
                c2 == c1 \o <<Call("add_member", members_add, r.rv)>>
            IN IF PyTruthy(r.rv)
               THEN Step("members_absent", rec, c2, r.w, failed \/ Fails(r.rv))
               ELSE Step("returned", [ret EXCEPT !.result = ResFalse], c2, r.w, TRUE)

Plain(ms) == [i \in 1..Len(ms) |-> [m |-> ms[i], explicit |-> FALSE]]
Flagged(ms) == [i \in 1..Len(ms) |-> [m |-> ms[i], explicit |-> TRUE]]

\* Lines 167-193: members_absent
MembersAbsentStep(rc) ==
    IF "members_absent" \notin kwargs.keys
    THEN Step("explicit", ret, calls, mm, failed)
    ELSE
    LET Subscribed(m) == PyTruthy(is_member(mm, m))
        members_del == SelectSeq(kwargs.members_absent, Subscribed)
        c1 == calls \o IsMemberCalls(kwargs.members_absent)
        rec == [ret EXCEPT !.changes.keys = @ \cup {"Unsubscribed"},
                           !.changes.Unsubscribed = @ \o Plain(members_del)]
    IN IF Len(members_del) = 0 THEN Step("explicit", ret, c1, mm, failed)
       ELSE IF opts_test
            THEN Step("explicit", [rec EXCEPT !.result = ResNone], c1, mm, failed)
       ELSE LET r == remove_member(mm, members_del, rc)
                c2 == c1 \o <<Call("remove_member", members_del, r.rv)>>
            IN IF PyTruthy(r.rv)
               THEN Step("explicit", rec, c2, r.w, failed \/ Fails(r.rv))
               ELSE Step("returned", [ret EXCEPT !.result = ResFalse], c2, r.w, TRUE)

\* Lines 199-202 with the present-list left out of salt_list
SaltList_Empty(members_present) == {}

\* Lines 199-202: salt_list, the bare addresses of members_present
SaltList(members_present) == {parseaddr(a)[2] : a \in Range(members_present)}

\* Lines 195-231: the explicit option
ExplicitStep(rc) ==
    IF "explicit" \notin kwargs.keys THEN Step("returned", ret, calls, mm, failed)
    ELSE
    LET c1 == calls \o <<Call("list_members", <<>>, PyBool(mailman_list_present(mm)))>>
        mm_list == list_members(mm)
    IN IF "members_present" \notin kwargs.keys
       THEN Step("raised", ret, c1, mm, failed)      \* KeyError, line 200
       ELSE
       LET salt_list == SaltList(kwargs.members_present)
           NotListed(a) == a.addr \notin salt_list
           del_list == SelectSeq(mm_list, NotListed)
           rec == [ret EXCEPT !.changes.keys = @ \cup {"Unsubscribed"},
                              !.changes.Unsubscribed = @ \o Flagged(del_list)]
       IN IF Len(del_list) = 0 THEN Step("returned", ret, c1, mm, failed)
          ELSE IF opts_test
               THEN Step("returned", [rec EXCEPT !.result = ResNone], c1, mm, failed)
          ELSE LET r == remove_member(mm, del_list, rc)
                   c2 == c1 \o <<Call("remove_member", del_list, r.rv)>>
               IN IF PyTruthy(r.rv)
                  THEN Step("returned", rec, c2, r.w, failed \/ Fails(r.rv))
                  ELSE Step("returned", [ret EXCEPT !.result = ResFalse], c2, r.w, TRUE)

\* Lines 233-255: list_absent
ListAbsentStep(rc) ==
    LET c1 == calls \o <<Call("list_present", <<>>, PyBool(mailman_list_present(mm)))>> IN
    IF ~mailman_list_present(mm) THEN Step("returned", ret, c1, mm, failed)
    ELSE IF opts_test
         THEN Step("returned", [ret EXCEPT !.result = ResNone], c1, mm, failed)
    ELSE LET r == remove_list(mm, rc)
             c2 == c1 \o <<Call("remove_list", <<>>, r.rv)>>
         IN IF PyTruthy(r.rv)
            THEN Step("returned", ret, c2, r.w, failed \/ Fails(r.rv))
            ELSE Step("returned", [ret EXCEPT !.result = ResFalse], c2, r.w, TRUE)

\* The exit code of the external tool a step runs
RC == {0, 1}

Take(n) ==
    /\ pc' = n.pc
    /\ ret' = n.ret
    /\ calls' = n.calls
    /\ mm' = n.w
    /\ failed' = n.failed
    /\ UNCHANGED <<opts_test, op, kwargs, callNo, lvm, pre, dev_i, size_numerical, lock, proc>>

ListPresent_Existence ==
    /\ op = "list_present" /\ pc = "existence"
    /\ \E rc \in RC : Take(ExistenceStep(rc))

ListPresent_Recheck ==
    /\ op = "list_present" /\ pc = "recheck"
    /\ Take(RecheckStep)

ListPresent_Password ==
    /\ op = "list_present" /\ pc = "password"
    /\ \E rc \in RC : Take(PasswordStep(rc))

ListPresent_Owner ==
    /\ op = "list_present" /\ pc = "owner"
    /\ \E rc \in RC : Take(OwnerStep(rc))

ListPresent_MembersPresent ==
    /\ op = "list_present" /\ pc = "members_present"
    /\ \E rc \in RC : Take(MembersPresentStep(rc))

ListPresent_MembersAbsent ==
    /\ op = "list_present" /\ pc = "members_absent"
    /\ \E rc \in RC : Take(MembersAbsentStep(rc))

ListPresent_Explicit ==
    /\ op = "list_present" /\ pc = "explicit"
    /\ \E rc \in RC : Take(ExplicitStep(rc))

ListAbsent ==
    /\ op = "list_absent" /\ pc = "absent"
    /\ \E rc \in RC : Take(ListAbsentStep(rc))

----------------------------------------------------------------------------
(* _states/rbm_lvm.py.  The lvm.* primitives are salt's own execution      *)
(* module: each is modelled by its effect on the LVM stack l when the tool *)
(* succeeds (rc = 0) and by no effect when it fails.                       *)

Orphans == "#orphans_lvm2"
NotPv == ""
VgName == "vg0"          \* the volume group the calls name
OtherVg == "vg1"         \* another volume group of the host

Devices == {"sda", "sdb", "sdc", "lnk"}
\* os.path.realpath: lnk is a symbolic link to sda
realpath(d) == IF d = "lnk" THEN "sda" ELSE d
RealDevices == {realpath(d) : d \in Devices}

\* 'Physical Extent Size (kB)' of the volume group
PESize == 4 * 1024
\* 'Current Logical Extents Associated' values of the logical volume
ExtentChoices == {128, 256, 512}

\* the local size_numerical before any of lines 289-293 assigned it
Unbound == -1

NoLvm == [pv |-> [d \in RealDevices |-> NotPv], vg |-> FALSE, lv |-> FALSE, extents |-> 0]

\* lvm.pvdisplay(dev): truthy iff dev is a physical volume
pvdisplay(l, d) == l.pv[realpath(d)] # NotPv
\* pvs[realdev]['Volume Group Name']
VolumeGroupName(l, d) == l.pv[realpath(d)]
vgdisplay(l) == l.vg
lvdisplay(l) == l.lv

pvcreate(l, d, rc) ==
    IF rc = 0 /\ l.pv[realpath(d)] = NotPv
    THEN [l EXCEPT !.pv[realpath(d)] = Orphans] ELSE l
pvremove(l, d, rc) ==
    IF rc = 0 /\ l.pv[realpath(d)] = Orphans
    THEN [l EXCEPT !.pv[realpath(d)] = NotPv] ELSE l
vgcreate(l, devs, rc) ==
    IF rc = 0 /\ devs # <<>> /\ \A d \in Range(devs) : l.pv[realpath(d)] \in {NotPv, Orphans}
    THEN [l EXCEPT !.vg = TRUE,
                   !.pv = [d \in RealDevices |->
                             IF d \in {realpath(x) : x \in Range(devs)} THEN VgName ELSE @[d]]]
    ELSE l
vgextend(l, d, rc) ==
    IF rc = 0 /\ l.pv[realpath(d)] = Orphans
    THEN [l EXCEPT !.pv[realpath(d)] = VgName] ELSE l
\* vgremove -f takes the logical volume with it
vgremove(l, rc) ==
    IF rc = 0
    THEN [l EXCEPT !.vg = FALSE, !.lv = FALSE, !.extents = 0,
                   !.pv = [d \in RealDevices |-> IF @[d] = VgName THEN Orphans ELSE @[d]]]
    ELSE l
\* the tool rounds to whole extents: e is the extent count it ends with
lvcreate(l, e, rc) ==
    IF rc = 0 /\ l.vg THEN [l EXCEPT !.lv = TRUE, !.extents = e] ELSE l
lvresize(l, e, rc) ==
    IF rc = 0 THEN [l EXCEPT !.extents = e] ELSE l
lvremove(l, rc) ==
    IF rc = 0 THEN [l EXCEPT !.lv = FALSE, !.extents = 0] ELSE l

(* Size strings are tuples of characters *)
DigitValue == [c \in {"0", "1", "2", "5"} |-> CASE c = "0" -> 0 [] c = "1" -> 1
                                                [] c = "2" -> 2 [] c = "5" -> 5]
Digits == DOMAIN DigitValue
Letters == {"T", "G", "M", "K", "g"}

\* int(m.group(1))
RECURSIVE DecValue(_)
DecValue(ds) ==
    IF ds = <<>> THEN 0
    ELSE 10 * DecValue(SubSeq(ds, 1, Len(ds) - 1)) + DigitValue[ds[Len(ds)]]

\* the length of the longest run of digits s starts with
RECURSIVE DigitRun(_)
DigitRun(s) ==
    IF s = <<>> \/ Head(s) \notin Digits THEN 0 ELSE 1 + DigitRun(Tail(s))

\* Line 287: m = re.match("([0-9]+)([A-Za-z])", size)
ReMatchSize(size) ==
    LET k == DigitRun(size) IN
    IF k >= 1 /\ Len(size) > k /\ size[k + 1] \in Letters
    THEN [matched |-> TRUE, group1 |-> SubSeq(size, 1, k), group2 |-> size[k + 1]]
    ELSE [matched |-> FALSE, group1 |-> <<>>, group2 |-> ""]

\* Lines 288-293 with a factor of 1024 missing from the G branch
SizeNumerical_GAsM(m) ==
    LET t == IF m.group2 = "T" THEN DecValue(m.group1) * 1024 * 1024 * 1024 ELSE Unbound
        g == IF m.group2 = "G" THEN DecValue(m.group1) * 1024 ELSE t
    IN IF m.group2 = "M" THEN DecValue(m.group1) * 1024 ELSE g

\* Lines 288-293: convert given (human readable) size to numerical value
SizeNumerical(m) ==
    LET t == IF m.group2 = "T" THEN DecValue(m.group1) * 1024 * 1024 * 1024 ELSE Unbound
        g == IF m.group2 = "G" THEN DecValue(m.group1) * 1024 * 1024 ELSE t
    IN IF m.group2 = "M" THEN DecValue(m.group1) * 1024 ELSE g

LStep(p, r, c, l, f, sz) == [pc |-> p, ret |-> r, calls |-> c, l |-> l, failed |-> f, sz |-> sz]

TakeL(n) ==
    /\ pc' = n.pc
    /\ ret' = n.ret
    /\ calls' = n.calls
    /\ lvm' = n.l
    /\ failed' = n.failed
    /\ size_numerical' = n.sz
    /\ UNCHANGED <<opts_test, op, kwargs, callNo, mm, pre, lock, proc>>

\* Lines 80, 179, 330 with the entry left out
Created_NoEntry(r) == r
\* ret['changes']['created'] = changes
Created(r) == [r EXCEPT !.changes.keys = @ \cup {"created"}]
Removed(r) == [r EXCEPT !.changes.keys = @ \cup {"removed"}]
Result(r, v) == [r EXCEPT !.result = v]

\* Lines 53-84: pv_present
PvPresentStep(rc) ==
    LET c1 == calls \o <<Call("pvdisplay", <<kwargs.name>>, "")>> IN
    IF pvdisplay(lvm, kwargs.name) THEN LStep("returned", ret, c1, lvm, failed, Unbound)
    ELSE IF opts_test THEN LStep("returned", Result(ret, ResNone), c1, lvm, failed, Unbound)
    ELSE LET l == pvcreate(lvm, kwargs.name, rc)
             c2 == c1 \o <<Call("pvcreate", <<kwargs.name>>, ""), Call("pvdisplay", <<kwargs.name>>, "")>>
         IN IF pvdisplay(l, kwargs.name)
            THEN LStep("returned", Created(ret), c2, l, failed, Unbound)
            ELSE LStep("returned", Result(ret, ResFalse), c2, l, TRUE, Unbound)

\* Lines 87-114: pv_absent
PvAbsentStep(rc) ==
    LET c1 == calls \o <<Call("pvdisplay", <<kwargs.name>>, "")>> IN
    IF ~pvdisplay(lvm, kwargs.name) THEN LStep("returned", ret, c1, lvm, failed, Unbound)
    ELSE IF opts_test THEN LStep("returned", Result(ret, ResNone), c1, lvm, failed, Unbound)
    ELSE LET l == pvremove(lvm, kwargs.name, rc)
             c2 == c1 \o <<Call("pvremove", <<kwargs.name>>, ""), Call("pvdisplay", <<kwargs.name>>, "")>>
         IN IF pvdisplay(l, kwargs.name)
            THEN LStep("returned", Result(ret, ResFalse), c2, l, TRUE, Unbound)
            ELSE LStep("returned", Removed(ret), c2, l, failed, Unbound)

\* Lines 131-139 and 170-183: vg_present up to the loop over the devices
VgPresentStep(rc) ==
    LET c1 == calls \o <<Call("vgdisplay", <<>>, "")>> IN
    IF vgdisplay(lvm)
    THEN IF "devices" \notin kwargs.keys
         THEN LStep("raised", ret, c1, lvm, failed, Unbound)   \* for device in None
         ELSE IF kwargs.devices = <<>> THEN LStep("returned", ret, c1, lvm, failed, Unbound)
         ELSE LStep("vg_device", ret, c1, lvm, failed, Unbound)
    ELSE IF opts_test THEN LStep("returned", Result(ret, ResNone), c1, lvm, failed, Unbound)
    ELSE LET devs == IF "devices" \in kwargs.keys THEN kwargs.devices ELSE <<>>
             l == vgcreate(lvm, devs, rc)
             c2 == c1 \o <<Call("vgcreate", devs, ""), Call("vgdisplay", <<>>, "")>>
         IN IF vgdisplay(l)
            THEN LStep("returned", Created(ret), c2, l, failed, Unbound)
            ELSE LStep("returned", Result(ret, ResFalse), c2, l, TRUE, Unbound)

\* Line 148 with the mistake of extending the group by any physical volume
\* that is not yet part of it
IsOrphan_AnyOtherGroup(l, d) == VolumeGroupName(l, d) # VgName

\* Line 148: pvs[realdev]['Volume Group Name'] == '#orphans_lvm2'
IsOrphan(l, d) == VolumeGroupName(l, d) = Orphans

\* Lines 140-169: the body of the loop, for the device at index i
VgDeviceStep(i, rc) ==
    LET device == kwargs.devices[i]
        next == IF i = Len(kwargs.devices) THEN "returned" ELSE "vg_device"
        c1 == calls \o <<Call("pvdisplay", <<device>>, "")>>
    IN IF pvdisplay(lvm, device)
       THEN IF VolumeGroupName(lvm, device) = VgName
            THEN LStep(next, ret, c1, lvm, failed, Unbound)
            ELSE IF IsOrphan(lvm, device)
            THEN LET l == vgextend(lvm, device, rc)
                     c2 == c1 \o <<Call("vgextend", <<device>>, ""), Call("pvdisplay", <<device>>, "")>>
                 IN IF VolumeGroupName(l, device) = VgName
                    THEN LStep(next, [ret EXCEPT !.changes.keys = @ \cup {device}],
                               c2, l, failed, Unbound)
                    ELSE LStep(next, Result(ret, ResFalse), c2, l, TRUE, Unbound)
            ELSE LStep(next, Result(ret, ResFalse), c1, lvm, failed, Unbound)
       ELSE LStep(next, Result(ret, ResFalse), c1, lvm, failed, Unbound)

\* Lines 186-213: vg_absent
VgAbsentStep(rc) ==
    LET c1 == calls \o <<Call("vgdisplay", <<>>, "")>> IN
    IF ~vgdisplay(lvm) THEN LStep("returned", ret, c1, lvm, failed, Unbound)
    ELSE IF opts_test THEN LStep("returned", Result(ret, ResNone), c1, lvm, failed, Unbound)
    ELSE LET l == vgremove(lvm, rc)
             c2 == c1 \o <<Call("vgremove", <<>>, ""), Call("vgdisplay", <<>>, "")>>
         IN IF ~vgdisplay(l)
            THEN LStep("returned", Removed(ret), c2, l, failed, Unbound)
            ELSE LStep("returned", Result(ret, ResFalse), c2, l, TRUE, Unbound)

\* Line 296 with the mistake of resizing whenever the sizes differ
NeedsResize_Differs(lvsize, sz) == lvsize # sz

\* Line 296: if lvsize < size_numerical
NeedsResize(lvsize, sz) == lvsize < sz

\* Line 303 with the mistake of accepting a volume larger than asked for
SizeConfirmed_AtLeast(lvsize, sz) == lvsize >= sz

\* Line 303: if lvsize == size_numerical
SizeConfirmed(lvsize, sz) == lvsize = sz

\* Lines 279-311: lv_present on a logical volume that exists.  The parameter
\* allow_resize (line 224) is read nowhere in the body.
LvResizeStep(e, rc) ==
    LET c1 == calls \o <<Call("lvdisplay", <<>>, ""), Call("lvdisplay", <<>>, ""), Call("vgdisplay", <<>>, "")>>
        pesize == PESize
        lvsize == lvm.extents * pesize
        m == ReMatchSize(kwargs.size)
        sz == SizeNumerical(m)
    IN IF "size" \notin kwargs.keys
       THEN LStep("raised", ret, c1, lvm, failed, Unbound)     \* re.match(..., None)
       ELSE IF ~m.matched
       THEN LStep("raised", ret, c1, lvm, failed, Unbound)     \* None.group(2)
       ELSE IF sz = Unbound
       THEN LStep("raised", ret, c1, lvm, failed, Unbound)     \* size_numerical is not bound
       ELSE IF NeedsResize(lvsize, sz)
       THEN LET l == lvresize(lvm, e, rc)
                c2 == c1 \o <<Call("lvresize", <<>>, ""), Call("lvdisplay", <<>>, "")>>
                lvsize_new == l.extents * pesize
            IN IF SizeConfirmed(lvsize_new, sz)
               THEN LStep("returned",
                          [ret EXCEPT !.changes.keys = @ \cup {"old", "new"},
                                      !.changes.old = lvsize, !.changes.new = lvsize_new],
                          c2, l, failed \/ rc # 0, sz)
               ELSE LStep("returned", Result(ret, ResFalse), c2, l, TRUE, sz)
       ELSE LStep("returned", ret, c1, lvm, failed, sz)

\* Lines 263-334: lv_present
LvPresentStep(e, rc) ==
    LET c1 == calls \o <<Call("lvdisplay", <<>>, "")>> IN
    IF lvdisplay(lvm) THEN LvResizeStep(e, rc)
    ELSE IF opts_test THEN LStep("returned", Result(ret, ResNone), c1, lvm, failed, Unbound)
    ELSE LET l == lvcreate(lvm, e, rc)
             c2 == c1 \o <<Call("lvcreate", <<>>, ""), Call("lvdisplay", <<>>, "")>>
         IN IF lvdisplay(l)
            THEN LStep("returned", Created(ret), c2, l, failed, Unbound)
            ELSE LStep("returned", Result(ret, ResFalse), c2, l, TRUE, Unbound)

\* Lines 337-368: lv_absent
LvAbsentStep(rc) ==
    LET c1 == calls \o <<Call("lvdisplay", <<>>, "")>> IN
    IF ~lvdisplay(lvm) THEN LStep("returned", ret, c1, lvm, failed, Unbound)
    ELSE IF opts_test THEN LStep("returned", Result(ret, ResNone), c1, lvm, failed, Unbound)
    ELSE LET l == lvremove(lvm, rc)
             c2 == c1 \o <<Call("lvremove", <<>>, ""), Call("lvdisplay", <<>>, "")>>
         IN IF ~lvdisplay(l)
            THEN LStep("returned", Removed(ret), c2, l, failed, Unbound)
            ELSE LStep("returned", Result(ret, ResFalse), c2, l, TRUE, Unbound)

PvPresent ==
    /\ op = "pv_present" /\ pc = "pv_present"
    /\ \E rc \in RC : TakeL(PvPresentStep(rc)) /\ UNCHANGED dev_i

PvAbsent ==
    /\ op = "pv_absent" /\ pc = "pv_absent"
    /\ \E rc \in RC : TakeL(PvAbsentStep(rc)) /\ UNCHANGED dev_i

VgPresent ==
    /\ op = "vg_present" /\ pc = "vg_present"
    /\ \E rc \in RC : TakeL(VgPresentStep(rc)) /\ UNCHANGED dev_i

VgPresent_Device ==
    /\ op = "vg_present" /\ pc = "vg_device"
    /\ \E rc \in RC : TakeL(VgDeviceStep(dev_i, rc))
    /\ dev_i' = dev_i + 1

VgAbsent ==
    /\ op = "vg_absent" /\ pc = "vg_absent"
    /\ \E rc \in RC : TakeL(VgAbsentStep(rc)) /\ UNCHANGED dev_i

LvPresent ==
    /\ op = "lv_present" /\ pc = "lv_present"
    /\ \E rc \in RC, e \in ExtentChoices : TakeL(LvPresentStep(e, rc)) /\ UNCHANGED dev_i

LvAbsent ==
    /\ op = "lv_absent" /\ pc = "lv_absent"
    /\ \E rc \in RC : TakeL(LvAbsentStep(rc)) /\ UNCHANGED dev_i

\* The first step of each entry point
FirstPc(o) ==
    CASE o = "list_present" -> "existence"
      [] o = "list_absent" -> "absent"
      [] OTHER -> o

\* The same state is applied once more: the entry point is called again with
\* the same arguments, on the system as the first call left it.
Again ==
    /\ pc = "returned" /\ callNo = 1
    /\ callNo' = 2
    /\ pc' = FirstPc(op)
    /\ ret' = Ret0
    /\ calls' = <<>>
    /\ dev_i' = 1
    /\ size_numerical' = Unbound
    /\ pre' = [mm |-> mm, lvm |-> lvm]
    /\ UNCHANGED <<opts_test, op, kwargs, failed, mm, lvm, lock, proc>>

----------------------------------------------------------------------------
(* The states a call can start from *)

Owners == {"a", "b", "c"}
Passwords == {"", "p"}
StoredPasswords == {Sha("p"), Sha("q")}

OwnerArgs == {[isList |-> TRUE, items |-> s] : s \in SeqUpTo(Owners, MaxOwners)}
             \cup {[isList |-> FALSE, items |-> <<o>>] : o \in Owners}

NoKwargs == [keys |-> {}, password |-> "", owner |-> [isList |-> TRUE, items |-> <<>>],
             members_present |-> <<>>, members_absent |-> <<>>, explicit |-> FALSE,
             name |-> "", devices |-> <<>>, size |-> <<>>, allow_resize |-> FALSE]

\* A kwargs with the keys ks and values drawn for those keys only
KwargsOver(ks) ==
    {[NoKwargs EXCEPT !.keys = ks, !.password = p, !.owner = o,
                      !.members_present = mp, !.members_absent = ma, !.explicit = e] :
        p \in (IF "password" \in ks THEN Passwords ELSE {""}),
        o \in (IF "owner" \in ks THEN OwnerArgs ELSE {NoKwargs.owner}),
        mp \in (IF "members_present" \in ks THEN SeqUpTo(RawAddrs, MaxMembers) ELSE {<<>>}),
        ma \in (IF "members_absent" \in ks THEN SeqUpTo(RawAddrs, MaxAbsent) ELSE {<<>>}),
        e \in (IF "explicit" \in ks THEN BOOLEAN ELSE {FALSE})}

MailmanInit(keys, servers) ==
    /\ opts_test \in BOOLEAN
    /\ op \in {"list_present", "list_absent"}
    /\ kwargs \in UNION {KwargsOver(ks) : ks \in (IF op = "list_present" THEN SUBSET keys ELSE {{}})}
    /\ pc = FirstPc(op)
    /\ ret = Ret0
    /\ calls = <<>>
    /\ failed = FALSE
    /\ callNo = 1
    /\ mm \in servers
    /\ lvm = NoLvm
    /\ pre = [mm |-> mm, lvm |-> lvm]
    /\ dev_i = 1
    /\ size_numerical = Unbound
    /\ lock = {}
    /\ proc = <<>>

\* Servers whose list, if any, has no member and no owner twice: the owner
\* and password flows
OwnerServers ==
    {NoList} \cup {[exists |-> TRUE, password |-> p, owner |-> o, members |-> {}] :
                      p \in StoredPasswords,
                      o \in {x \in SeqUpTo(Owners, MaxOwners) : Cardinality(Range(x)) = Len(x)}}

\* Servers whose list, if any, has one owner: the membership flows
MemberServers ==
    {NoList} \cup {[exists |-> TRUE, password |-> Sha("p"), owner |-> <<"a">>, members |-> m] :
                      m \in SUBSET Addrs}

MailmanNext ==
    \/ ListPresent_Existence
    \/ ListPresent_Recheck
    \/ ListPresent_Password
    \/ ListPresent_Owner
    \/ ListPresent_MembersPresent
    \/ ListPresent_MembersAbsent
    \/ ListPresent_Explicit
    \/ ListAbsent
    \/ Again

OwnerInit == MailmanInit({"password", "owner"}, OwnerServers)
SpecOwner == OwnerInit /\ [][MailmanNext]_vars

MemberInit == MailmanInit({"members_present", "members_absent", "explicit"}, MemberServers)
SpecMember == MemberInit /\ [][MailmanNext]_vars

----------------------------------------------------------------------------
(* The LVM stacks a call can start from *)

LvmStacks ==
    {[pv |-> p, vg |-> v, lv |-> FALSE, extents |-> 0] :
        p \in [RealDevices -> {NotPv, Orphans, VgName, OtherVg}], v \in BOOLEAN}
    \cup {[pv |-> p, vg |-> TRUE, lv |-> TRUE, extents |-> e] :
            p \in [RealDevices -> {NotPv, Orphans, VgName, OtherVg}], e \in ExtentChoices}

\* a volume group holds at least one physical volume, and only a volume
\* group that exists holds any
Consistent(l) == l.vg <=> (\E d \in RealDevices : l.pv[d] = VgName)

\* The size strings of the volume calls: '1G', '2G', '512M', '1K', '1'
LvmSizes == {<<"1", "G">>, <<"2", "G">>, <<"5", "1", "2", "M">>, <<"1", "K">>, <<"1">>}

LvmKwargs(o) ==
    CASE o \in {"pv_present", "pv_absent"} ->
           {[NoKwargs EXCEPT !.name = d] : d \in Devices}
      [] o = "vg_present" ->
           {NoKwargs} \cup {[NoKwargs EXCEPT !.keys = {"devices"}, !.devices = ds] :
                               ds \in SeqUpTo(Devices, MaxDevices)}
      [] o = "lv_present" ->
           {[NoKwargs EXCEPT !.allow_resize = ar] : ar \in BOOLEAN}
           \cup {[NoKwargs EXCEPT !.keys = {"size"}, !.size = s, !.allow_resize = ar] :
                    s \in LvmSizes, ar \in BOOLEAN}
      [] OTHER -> {NoKwargs}

LvmInit ==
    /\ opts_test \in BOOLEAN
    /\ op \in {"pv_present", "pv_absent", "vg_present", "vg_absent", "lv_present", "lv_absent"}
    /\ kwargs \in LvmKwargs(op)
    /\ pc = FirstPc(op)
    /\ ret = Ret0
    /\ calls = <<>>
    /\ failed = FALSE
    /\ callNo = 1
    /\ mm = NoList
    /\ lvm \in {l \in LvmStacks : Consistent(l)}
    /\ pre = [mm |-> mm, lvm |-> lvm]
    /\ dev_i = 1
    /\ size_numerical = Unbound
    /\ lock = {}
    /\ proc = <<>>

LvmNext ==
    \/ PvPresent
    \/ PvAbsent
    \/ VgPresent
    \/ VgPresent_Device
    \/ VgAbsent
    \/ LvPresent
    \/ LvAbsent
    \/ Again

SpecLvm == LvmInit /\ [][LvmNext]_vars

\* Size strings: up to MaxDigits digits, then nothing, a letter, a '.', or
\* a letter and a 'B'
SizeStrings ==
    {ds \o t : ds \in SeqUpTo(Digits, MaxDigits),
               t \in {<<>>, <<".">>} \cup {<<c>> : c \in Letters} \cup {<<c, "B">> : c \in Letters}}

\* Python's integers have no bound; the checker's stop below 2^31, so the
\* sizes drawn stay under 2048G
MaxSizeKb == 2047 * 1024 * 1024 + 1024 * 1024 - 1

Factor(c) == CASE c = "T" -> 1024 * 1024 * 1024 [] c = "G" -> 1024 * 1024 [] OTHER -> 1024

InRange(s) ==
    LET m == ReMatchSize(s) IN m.matched => DecValue(m.group1) <= MaxSizeKb \div Factor(m.group2)

SizeInit ==
    /\ opts_test \in BOOLEAN
    /\ op = "lv_present"
    /\ kwargs \in {[NoKwargs EXCEPT !.keys = {"size"}, !.size = s] :
                      s \in {x \in SizeStrings : InRange(x)}}
    /\ pc = FirstPc(op)
    /\ ret = Ret0
    /\ calls = <<>>
    /\ failed = FALSE
    /\ callNo = 1
    /\ mm = NoList
    /\ lvm \in {[pv |-> [d \in RealDevices |-> VgName], vg |-> TRUE, lv |-> TRUE, extents |-> e] :
                  e \in ExtentChoices}
    /\ pre = [mm |-> mm, lvm |-> lvm]
    /\ dev_i = 1
    /\ size_numerical = Unbound
    /\ lock = {}
    /\ proc = <<>>

SizeNext == LvPresent

SpecSize == SizeInit /\ [][SizeNext]_vars

----------------------------------------------------------------------------
(* _modules/mailman.py: set_owner and set_list_password called by several  *)
(* callers at once on the same list.  MailList.MailList(name) takes the    *)
(* file lock of the list (waiting while another caller holds it) and loads *)
(* the list; with lock=0 it loads without the lock; l.Lock() takes the     *)
(* lock and loads again; a load that fails gives the lock back and raises. *)
(* Each caller p has its own MailList object proc[p].l; mm is the list as  *)
(* saved on disk.                                                          *)

Procs == 1..MaxProcs

\* The fields of the list a MailList object holds
Loaded(w) == [owner |-> w.owner, password |-> w.password]

\* A caller before its first statement
Caller(fn, owner, password) ==
    [fn |-> fn, owner |-> owner, password |-> password, pc |-> "start",
     l |-> Loaded(NoList), rv |-> "", unguarded |-> FALSE, saveFailed |-> FALSE]

\* Lines 261-265, 279-283 without the finally clause: an exception of Save()
\* leaves the function at once
AfterSave_NoFinally(rc) == IF rc = 0 THEN "unlock_return" ELSE "raised"

\* Lines 261-265, 279-283: try: ...; l.Save()  finally: l.Unlock()
AfterSave(rc) == IF rc = 0 THEN "unlock_return" ELSE "unlock_raise"

\* Line 260: l = MailList.MailList(name.lower())
SetOwner_Open(p) ==
    /\ proc[p].fn = "set_owner" /\ proc[p].pc = "start"
    /\ lock = {}
    /\ \E rc \in RC :
          IF rc = 0
          THEN /\ lock' = {p}
               /\ proc' = [proc EXCEPT ![p].pc = "write", ![p].l = Loaded(mm)]
          ELSE /\ lock' = lock
               /\ proc' = [proc EXCEPT ![p].pc = "raised", ![p].rv = "Raise"]
    /\ UNCHANGED mm

\* Line 262: l.owner = owner
SetOwner_Write(p) ==
    /\ proc[p].fn = "set_owner" /\ proc[p].pc = "write"
    /\ proc' = [proc EXCEPT ![p].pc = "save", ![p].l.owner = proc[p].owner,
                            ![p].unguarded = @ \/ p \notin lock]
    /\ UNCHANGED <<mm, lock>>

\* l.Save(): writes the fields of the object to disk, or raises
Save(p) ==
    \E rc \in RC :
        /\ mm' = IF rc = 0
                 THEN [mm EXCEPT !.owner = proc[p].l.owner, !.password = proc[p].l.password]
                 ELSE mm
        /\ proc' = [proc EXCEPT ![p].pc = AfterSave(rc),
                                ![p].saveFailed = (rc # 0),
                                ![p].unguarded = @ \/ p \notin lock]
        /\ UNCHANGED lock

\* l.Unlock(), then return True or let the exception of Save() go on
Unlock(p) ==
    /\ lock' = lock \ {p}
    /\ proc' = [proc EXCEPT ![p].pc = IF proc[p].pc = "unlock_return" THEN "returned" ELSE "raised",
                            ![p].rv = IF proc[p].pc = "unlock_return" THEN "True" ELSE "Raise"]
    /\ UNCHANGED mm

\* Line 263: l.Save()
SetOwner_Save(p) ==
    /\ proc[p].fn = "set_owner" /\ proc[p].pc = "save"
    /\ Save(p)

\* Lines 264-266: finally: l.Unlock(); return True
SetOwner_Unlock(p) ==
    /\ proc[p].fn = "set_owner" /\ proc[p].pc \in {"unlock_return", "unlock_raise"}
    /\ Unlock(p)

\* Lines 274-277: l = MailList.MailList(name.lower(), lock=0); an empty
\* password returns (False, 'Empty passwords are not allowed')
SetPassword_Open(p) ==
    /\ proc[p].fn = "set_list_password" /\ proc[p].pc = "start"
    /\ \E rc \in RC :
          proc' = IF rc # 0
                  THEN [proc EXCEPT ![p].pc = "raised", ![p].rv = "Raise"]
                  ELSE IF Len(proc[p].password) < 1
                  THEN [proc EXCEPT ![p].pc = "returned", ![p].rv = "Tuple", ![p].l = Loaded(mm)]
                  ELSE [proc EXCEPT ![p].pc = "lock", ![p].l = Loaded(mm)]
    /\ UNCHANGED <<mm, lock>>

\* Line 278: l.Lock()
SetPassword_Lock(p) ==
    /\ proc[p].fn = "set_list_password" /\ proc[p].pc = "lock"
    /\ lock = {}
    /\ \E rc \in RC :
          IF rc = 0
          THEN /\ lock' = {p}
               /\ proc' = [proc EXCEPT ![p].pc = "write", ![p].l = Loaded(mm)]
          ELSE /\ lock' = lock
               /\ proc' = [proc EXCEPT ![p].pc = "raised", ![p].rv = "Raise"]
    /\ UNCHANGED mm

\* Line 280: l.password = shapassword
SetPassword_Write(p) ==
    /\ proc[p].fn = "set_list_password" /\ proc[p].pc = "write"
    /\ proc' = [proc EXCEPT ![p].pc = "save", ![p].l.password = Sha(proc[p].password),
                            ![p].unguarded = @ \/ p \notin lock]
    /\ UNCHANGED <<mm, lock>>

\* Line 281: l.Save()
SetPassword_Save(p) ==
    /\ proc[p].fn = "set_list_password" /\ proc[p].pc = "save"
    /\ Save(p)

\* Lines 282-284: finally: l.Unlock(); return True
SetPassword_Unlock(p) ==
    /\ proc[p].fn = "set_list_password" /\ proc[p].pc \in {"unlock_return", "unlock_raise"}
    /\ Unlock(p)

\* The passwords are strings of characters here: len(password) is taken
LockPasswords == {<<>>, <<"q">>}
LockOwners == {<<"b">>, <<"c">>}

Callers ==
    {Caller("set_owner", o, <<>>) : o \in LockOwners}
    \cup {Caller("set_list_password", <<>>, pw) : pw \in LockPasswords}

LockInit ==
    /\ opts_test = FALSE
    /\ op = "concurrent"
    /\ kwargs = NoKwargs
    /\ pc = "concurrent"
    /\ ret = Ret0
    /\ calls = <<>>
    /\ failed = FALSE
    /\ callNo = 1
    /\ mm = [exists |-> TRUE, password |-> Sha(<<"p">>), owner |-> <<"a">>, members |-> {}]
    /\ lvm = NoLvm
    /\ pre = [mm |-> mm, lvm |-> lvm]
    /\ dev_i = 1
    /\ size_numerical = Unbound
    /\ lock = {}
    /\ proc \in [Procs -> Callers]

Others == <<opts_test, op, kwargs, pc, ret, calls, failed, callNo, lvm, pre, dev_i, size_numerical>>

LockNext ==
    \/ \E p \in Procs : SetOwner_Open(p) /\ UNCHANGED Others
    \/ \E p \in Procs : SetOwner_Write(p) /\ UNCHANGED Others
    \/ \E p \in Procs : SetOwner_Save(p) /\ UNCHANGED Others
    \/ \E p \in Procs : SetOwner_Unlock(p) /\ UNCHANGED Others
    \/ \E p \in Procs : SetPassword_Open(p) /\ UNCHANGED Others
    \/ \E p \in Procs : SetPassword_Lock(p) /\ UNCHANGED Others
    \/ \E p \in Procs : SetPassword_Write(p) /\ UNCHANGED Others
    \/ \E p \in Procs : SetPassword_Save(p) /\ UNCHANGED Others
    \/ \E p \in Procs : SetPassword_Unlock(p) /\ UNCHANGED Others

SpecLock == LockInit /\ [][LockNext]_vars

----------------------------------------------------------------------------
(* The properties checked *)

MailmanMutate == {"add_list", "remove_list", "set_list_password", "set_owner",
                  "add_member", "remove_member"}
LvmMutate == {"pvcreate", "pvremove", "vgcreate", "vgextend", "vgremove",
              "lvcreate", "lvresize", "lvremove"}
AttributePrimitives == {"check_list_password", "set_list_password", "get_owner", "set_owner",
                        "is_member", "add_member", "remove_member", "list_members"}
AttributeMutate == {"set_list_password", "set_owner", "add_member", "remove_member"}

Invoked(fns) == \E i \in DOMAIN calls : calls[i].fn \in fns
Ended == pc \in {"returned", "raised"}

\* C1: under dry-run (__opts__['test'] true) no entry point invokes a mutate
\* primitive, whatever state the call starts from.
C1_DryRunNeverMutates ==
    opts_test => ~Invoked(MailmanMutate \cup LvmMutate)

\* C2: a 'present' operation called twice in a row, non-dry-run, with the same
\* arguments and every primitive succeeding, returns changes = {} from the
\* second call.
C2_SecondCallChangesNothing ==
    (callNo = 2 /\ pc = "returned" /\ ~opts_test /\ ~failed
        /\ op \in {"list_present", "pv_present", "vg_present", "lv_present"})
    => ret.changes.keys = {}

\* C3: the list list_present passes to set_owner holds, as a set, exactly
\* the desired owners.
C3_SetOwnerGetsDesiredOwners ==
    \A i \in DOMAIN calls :
        calls[i].fn = "set_owner" => Range(calls[i].arg) = Range(SaltOwner(kwargs.owner))

\* C4: when add_list signals failure in a non-dry-run list_present, no
\* attribute primitive is called after it and list_present returns
\* result = False.
C4_FailFastOnCreation ==
    \A i \in DOMAIN calls :
        (op = "list_present" /\ ~opts_test /\ calls[i].fn = "add_list" /\ Fails(calls[i].rv))
        => /\ \A j \in DOMAIN calls : j > i => calls[j].fn \notin AttributePrimitives
           /\ Ended => (pc = "returned" /\ ret.result = ResFalse)

\* the desired device d is a physical volume of another volume group
Conflict(d) == VolumeGroupName(pre.lvm, d) \notin {NotPv, Orphans, VgName}
MutatedDevice(d) ==
    \E i \in DOMAIN calls :
        /\ calls[i].fn \in LvmMutate
        /\ \E x \in Range(calls[i].arg) : realpath(x) = realpath(d)

\* C5: when the volume group exists and a desired device is a physical
\* volume of a different volume group, vg_present invokes no mutate primitive
\* on that device, and once the loop has passed the device the result is
\* False and stays False until the call returns.
C5_ConflictIsFailure ==
    (op = "vg_present" /\ pre.lvm.vg /\ "devices" \in kwargs.keys)
    => \A i \in 1..Len(kwargs.devices) :
          Conflict(kwargs.devices[i])
          => /\ ~MutatedDevice(kwargs.devices[i])
             /\ (pc \in {"vg_device", "returned"} /\ dev_i > i) => ret.result = ResFalse

\* C5 witness: vg_present returned after meeting a device of another group
\* and extending the group by another, orphaned, device
C5_Witness ==
    /\ op = "vg_present" /\ pre.lvm.vg /\ pc = "returned"
    /\ \E i \in 1..Len(kwargs.devices) : Conflict(kwargs.devices[i])
    /\ Invoked({"vgextend"})
    /\ ret.result = ResFalse

AddrSet(ms) == {parseaddr(m)[2] : m \in Range(ms)}
PassedTo(fn) == UNION {AddrSet(calls[i].arg) : i \in {j \in DOMAIN calls : calls[j].fn = fn}}

\* C6: explicit membership.  With explicit set, on an existing list with
\* membership M and present-set P, non-dry-run and every primitive succeeding:
\* add_member gets exactly P \ M, remove_member exactly M \ P, the membership
\* ends as P, and changes records 'Subscribed' listing P \ M and 'Unsubscribed'
\* listing M \ P, each marked '(explicit flag)'.
C6_ExplicitMembership ==
    LET P == AddrSet(kwargs.members_present)
        M == pre.mm.members
    IN (/\ op = "list_present" /\ pc = "returned" /\ ~opts_test /\ ~failed
        /\ pre.mm.exists
        /\ kwargs.keys = {"members_present", "explicit"} /\ kwargs.explicit
        /\ Cardinality(P) = Len(kwargs.members_present))
       => /\ PassedTo("add_member") = P \ M
          /\ PassedTo("remove_member") = M \ P
          /\ mm.members = P
          /\ AddrSet(ret.changes.Subscribed) = P \ M
          /\ {u.m.addr : u \in Range(ret.changes.Unsubscribed)} = M \ P
          /\ \A u \in Range(ret.changes.Unsubscribed) : u.explicit
          /\ ret.changes.keys = (IF P \ M = {} THEN {} ELSE {"Subscribed"})
                                \cup (IF M \ P = {} THEN {} ELSE {"Unsubscribed"})

\* the number a run of digits writes, by its positions
Positional(ds) ==
    LET RECURSIVE Sum(_)
        Sum(i) == IF i = 0 THEN 0
                  ELSE DigitValue[ds[i]] * 10 ^ (Len(ds) - i) + Sum(i - 1)
    IN Sum(Len(ds))

\* C7: lv_present converts a size of n followed by 'T', 'G' or 'M' to exactly
\* n*1024*1024*1024, n*1024*1024 and n*1024 kB; '10G' is 10485760, '1T' is
\* 1073741824 and '512M' is 524288.
C7_SizeParsing ==
    (op = "lv_present" /\ pre.lvm.lv /\ Ended)
    => /\ \A ds \in SeqUpTo(Digits, MaxDigits) :
            /\ (ds # <<>> /\ kwargs.size = ds \o <<"T">>)
                  => size_numerical = Positional(ds) * 1024 * 1024 * 1024
            /\ (ds # <<>> /\ kwargs.size = ds \o <<"G">>)
                  => size_numerical = Positional(ds) * 1024 * 1024
            /\ (ds # <<>> /\ kwargs.size = ds \o <<"M">>)
                  => size_numerical = Positional(ds) * 1024
       /\ kwargs.size = <<"1", "0", "G">> => size_numerical = 10485760
       /\ kwargs.size = <<"1", "T">> => size_numerical = 1073741824
       /\ kwargs.size = <<"5", "1", "2", "M">> => size_numerical = 524288

\* C7 witness: lv_present has converted '10G'
C7_Witness ==
    /\ op = "lv_present" /\ pre.lvm.lv /\ pc = "returned"
    /\ kwargs.size = <<"1", "0", "G">>
    /\ size_numerical = 10 * 1024 * 1024

\* the key of changes an attribute's mutate primitive is recorded under
ChangeKey(fn) ==
    CASE fn = "set_list_password" -> "PW"
      [] fn = "set_owner" -> "Owner"
      [] fn = "add_member" -> "Subscribed"
      [] OTHER -> "Unsubscribed"

\* C8: in a non-dry-run list_present, when set_list_password, set_owner,
\* add_member or remove_member signals failure (it returns the pair
\* (False, message)), list_present returns
\* result = False at once: the failing call is the last call of the pass, no
\* change entry is recorded for that attribute, and no exception escapes.
C8_AttributeFailureIsFalse ==
    \A i \in DOMAIN calls :
        (op = "list_present" /\ ~opts_test
            /\ calls[i].fn \in AttributeMutate /\ calls[i].rv = "Tuple")
        => /\ pc = "returned"
           /\ ret.result = ResFalse
           /\ i = Len(calls)
           /\ ChangeKey(calls[i].fn) \notin ret.changes.keys

\* what the call found differs from what it was asked for
Discrepancy ==
    LET m == ReMatchSize(kwargs.size) IN
    CASE op = "list_present" -> ~pre.mm.exists
      [] op = "list_absent" -> pre.mm.exists
      [] op = "pv_present" -> ~pvdisplay(pre.lvm, kwargs.name)
      [] op = "pv_absent" -> pvdisplay(pre.lvm, kwargs.name)
      [] op = "vg_present" ->
            \/ ~pre.lvm.vg
            \/ \E d \in Range(kwargs.devices) : VolumeGroupName(pre.lvm, d) = Orphans
      [] op = "vg_absent" -> pre.lvm.vg
      [] op = "lv_present" ->
            \/ ~pre.lvm.lv
            \/ /\ m.matched /\ m.group2 \in {"T", "G", "M"}
               /\ pre.lvm.extents * PESize < DecValue(m.group1) * Factor(m.group2)
      [] OTHER -> pre.lvm.lv

\* C9: the result is None only for a dry-run call that detected a
\* discrepancy; a non-dry-run call never returns None, and a dry-run call
\* that detected a discrepancy never returns True.
C9_TriState ==
    pc = "returned"
    => /\ ret.result = ResNone => (opts_test /\ Discrepancy)
       /\ (opts_test /\ Discrepancy) => ret.result # ResTrue

\* the resource of the call exists and the call names no desired attribute
NoOpPresent ==
    \/ op = "list_present" /\ pre.mm.exists /\ kwargs.keys = {}
    \/ op = "pv_present" /\ pvdisplay(pre.lvm, kwargs.name)
    \/ op = "vg_present" /\ pre.lvm.vg /\ "devices" \in kwargs.keys /\ kwargs.devices = <<>>
    \/ op = "lv_present" /\ pre.lvm.lv /\ "size" \notin kwargs.keys

\* C10: a 'present' operation on a resource that exists, with no desired
\* attribute, invokes no mutate primitive and returns result = True with
\* changes = {} without raising.
C10_NoOpPresent ==
    (NoOpPresent /\ Ended)
    => /\ pc = "returned"
       /\ ret.result = ResTrue
       /\ ret.changes.keys = {}
       /\ ~Invoked(MailmanMutate \cup LvmMutate)

\* C11: resize is opt-in.  With allow_resize false (the default) lv_present
\* never invokes lvresize, whatever the current and the desired size are.
C11_ResizeIsOptIn ==
    (op = "lv_present" /\ ~kwargs.allow_resize) => ~Invoked({"lvresize"})

\* the size lv_present is asked for is a number followed by 'T', 'G' or 'M'
HasDesired ==
    /\ "size" \in kwargs.keys
    /\ ReMatchSize(kwargs.size).matched
    /\ ReMatchSize(kwargs.size).group2 \in {"T", "G", "M"}
\* that size in kB
DesiredKb ==
    Positional(ReMatchSize(kwargs.size).group1) * Factor(ReMatchSize(kwargs.size).group2)
\* the size in kB of the logical volume of the stack l
SizeKb(l) == l.extents * PESize

\* C12: shrinking is never attempted.  When the logical volume exists and its
\* current size (extents times physical extent size) is greater than or equal
\* to the desired size, lv_present invokes no lvresize and returns
\* result = True with changes = {}.
C12_NeverShrinks ==
    (op = "lv_present" /\ Ended /\ pre.lvm.lv /\ HasDesired /\ SizeKb(pre.lvm) >= DesiredKb)
    => /\ pc = "returned"
       /\ ~Invoked({"lvresize"})
       /\ lvm = pre.lvm
       /\ ret.result = ResTrue
       /\ ret.changes.keys = {}

\* C12 witness: lv_present returned from a volume of 2G asked to be 1G
C12_Witness ==
    /\ op = "lv_present" /\ pc = "returned" /\ pre.lvm.lv
    /\ HasDesired /\ SizeKb(pre.lvm) > DesiredKb
    /\ ~Invoked({"lvresize"})

\* C13: after lv_present invoked lvresize the logical volume is queried
\* again, and the call returns result = True with changes old and new if and
\* only if the size queried equals the desired size exactly; any other size,
\* smaller or larger, gives result = False with changes = {}.
C13_ResizeConfirmed ==
    (op = "lv_present" /\ Ended /\ Invoked({"lvresize"}))
    => /\ pc = "returned"
       /\ calls[Len(calls) - 1].fn = "lvresize" /\ calls[Len(calls)].fn = "lvdisplay"
       /\ IF SizeKb(lvm) = DesiredKb
          THEN /\ ret.result = ResTrue
               /\ ret.changes.keys = {"old", "new"}
               /\ ret.changes.old = SizeKb(pre.lvm) /\ ret.changes.new = DesiredKb
          ELSE /\ ret.result = ResFalse
               /\ ret.changes.keys = {}

\* C13 witness: the volume ended larger than asked for and the call returned
\* False
C13_Witness ==
    /\ op = "lv_present" /\ pc = "returned" /\ Invoked({"lvresize"})
    /\ SizeKb(lvm) > DesiredKb
    /\ ret.result = ResFalse

\* C14: fail-fast after the first False.  Once a step of a pass has set
\* result = False, no later step of that pass invokes a mutate primitive; in
\* vg_present, after one desired device failed no vgextend is invoked for a
\* later device.
C14_FailFastAfterFalse ==
    [][(ret.result = ResFalse /\ callNo' = callNo)
        => \A i \in DOMAIN calls' :
              i > Len(calls) => calls'[i].fn \notin MailmanMutate \cup LvmMutate]_vars

\* the resource an '*_absent' call names exists in the system w, l
ResourceExists(w, l) ==
    CASE op = "list_absent" -> mailman_list_present(w)
      [] op = "pv_absent" -> pvdisplay(l, kwargs.name)
      [] op = "vg_absent" -> vgdisplay(l)
      [] OTHER -> lvdisplay(l)

\* C15: removal is confirmed.  For list_absent, pv_absent, vg_absent and
\* lv_absent run non-dry-run on a resource that exists: if the resource still
\* exists after the remove primitive was invoked, or the remove primitive
\* signalled failure, the call returns result = False.
C15_RemovalConfirmed ==
    (/\ op \in {"list_absent", "pv_absent", "vg_absent", "lv_absent"}
     /\ Ended /\ ~opts_test /\ ResourceExists(pre.mm, pre.lvm)
     /\ \/ ResourceExists(mm, lvm)
        \/ \E i \in DOMAIN calls : calls[i].fn \in MailmanMutate \cup LvmMutate
                                      /\ Fails(calls[i].rv))
    => (pc = "returned" /\ ret.result = ResFalse)

\* the resource a volume '*_present' call names exists in the stack l
VolumePresent(l) ==
    CASE op = "pv_present" -> pvdisplay(l, kwargs.name)
      [] op = "vg_present" -> vgdisplay(l)
      [] OTHER -> lvdisplay(l)

CreatePrimitive ==
    CASE op = "pv_present" -> "pvcreate" [] op = "vg_present" -> "vgcreate" [] OTHER -> "lvcreate"
DisplayPrimitive ==
    CASE op = "pv_present" -> "pvdisplay" [] op = "vg_present" -> "vgdisplay" [] OTHER -> "lvdisplay"

\* C16: creation is confirmed for volumes.  pv_present, vg_present and
\* lv_present run non-dry-run on a resource that does not exist invoke the
\* create primitive exactly once, query again, and return result = True with
\* a 'created' entry in changes if and only if that query reports the
\* resource present; otherwise result = False with changes = {}.
C16_CreationConfirmed ==
    (/\ op \in {"pv_present", "vg_present", "lv_present"}
     /\ Ended /\ ~opts_test /\ ~VolumePresent(pre.lvm))
    => /\ pc = "returned"
       /\ Cardinality({i \in DOMAIN calls : calls[i].fn \in LvmMutate}) = 1
       /\ Len(calls) = 3
       /\ calls[2].fn = CreatePrimitive /\ calls[3].fn = DisplayPrimitive
       /\ IF VolumePresent(lvm)
          THEN ret.result = ResTrue /\ ret.changes.keys = {"created"}
          ELSE ret.result = ResFalse /\ ret.changes.keys = {}

\* C16 witness: lv_present created the logical volume and recorded it
C16_Witness ==
    /\ op = "lv_present" /\ pc = "returned" /\ ~opts_test
    /\ ~lvdisplay(pre.lvm) /\ lvdisplay(lvm)
    /\ Invoked({"lvcreate"}) /\ "created" \in ret.changes.keys

\* C17: an empty password is a validation failure.  A non-dry-run
\* list_present with password '' (and no other argument, so that no later
\* step has a say) on an existing list whose password check does
\* not pass never writes the stored password, returns result = False and
\* records no 'PW' entry in changes.
C17_EmptyPasswordRejected ==
    (/\ op = "list_present" /\ Ended /\ ~opts_test /\ pre.mm.exists
     /\ kwargs.keys = {"password"} /\ kwargs.password = ""
     /\ ~PyTruthy(check_list_password(pre.mm, "")))
    => /\ mm.password = pre.mm.password
       /\ ~\E i \in DOMAIN calls : calls[i].fn = "set_list_password" /\ calls[i].rv = "True"
       /\ pc = "returned"
       /\ ret.result = ResFalse
       /\ "PW" \notin ret.changes.keys

\* C18: a malformed size is a validation failure.  lv_present on an existing
\* logical volume with a size that has no 'T', 'G' or 'M' after its digits
\* (a 'K', a lowercase unit, digits alone) returns result = False, invokes no
\* lvresize and raises no exception.
C18_MalformedSizeRejected ==
    (op = "lv_present" /\ Ended /\ pre.lvm.lv /\ "size" \in kwargs.keys /\ ~HasDesired)
    => /\ pc = "returned"
       /\ ret.result = ResFalse
       /\ ~Invoked({"lvresize"})

\* C19: explicit mode without a present-list is rejected.  list_present
\* called on an existing list with explicit set and no members_present
\* returns result = False, invokes no remove_member and raises no exception.
C19_ExplicitNeedsPresentList ==
    (/\ op = "list_present" /\ Ended /\ pre.mm.exists
     /\ kwargs.keys = {"explicit"} /\ kwargs.explicit)
    => /\ pc = "returned"
       /\ ret.result = ResFalse
       /\ ~Invoked({"remove_member"})

\* C20: explicit cleanup runs only when explicit is true.  list_present
\* called on an existing list with explicit = False, or without explicit,
\* never removes a
\* subscriber that members_absent does not name, whatever the membership is.
C20_NoCleanupUnlessExplicit ==
    (/\ op = "list_present" /\ pre.mm.exists
     /\ "explicit" \in kwargs.keys => ~kwargs.explicit)
    => \A i \in DOMAIN calls :
          calls[i].fn = "remove_member"
          => AddrSet(calls[i].arg) \subseteq AddrSet(kwargs.members_absent)

\* The place of each primitive in the order of list_present: the earliest
\* and the latest of the steps existence (1), password (2), owner (3),
\* members-present queries (4) and add (5), members-absent queries (6) and
\* remove (7), explicit query (8) and remove (9) that may call it.
Earliest(fn) ==
    CASE fn \in {"list_present", "add_list"} -> 1
      [] fn \in {"check_list_password", "set_list_password"} -> 2
      [] fn \in {"get_owner", "set_owner"} -> 3
      [] fn = "is_member" -> 4
      [] fn = "add_member" -> 5
      [] fn = "remove_member" -> 7
      [] OTHER -> 8
Latest(fn) ==
    CASE fn = "is_member" -> 6
      [] fn = "remove_member" -> 9
      [] OTHER -> Earliest(fn)

\* the calls of remove_member made by the explicit cleanup: those after
\* list_members
ExplicitRemovals ==
    {j \in DOMAIN calls :
        calls[j].fn = "remove_member" /\ \E i \in 1..(j - 1) : calls[i].fn = "list_members"}

C22_LockDiscipline ==
    op = "concurrent"
    => /\ Cardinality(lock) <= 1
       /\ \A p \in Procs :
             /\ ~proc[p].unguarded
             /\ proc[p].pc \in {"write", "save"} => p \in lock
             /\ proc[p].pc \in {"returned", "raised"} => p \notin lock

\* C22 witness: one caller failed inside Save() and gave the lock back,
\* another holds it now and is about to save
C22_Witness ==
    /\ op = "concurrent"
    /\ \E p, q \in Procs :
          /\ p # q
          /\ proc[p].pc = "raised" /\ proc[p].saveFailed
          /\ proc[q].pc = "save" /\ lock = {q}

\* some mutate primitive of the call did change the system
MutateSucceeded ==
    \/ \E i \in DOMAIN calls : calls[i].fn \in MailmanMutate /\ calls[i].rv = "True"
                                  /\ mm # pre.mm
    \/ Invoked(LvmMutate) /\ lvm # pre.lvm

\* C23: every performed change is reported.  A non-dry-run call that
\* successfully invoked a mutate primitive returns a non-empty changes, and a
\* call that returns changes = {} with result = True invoked no mutate
\* primitive; list_absent removing an existing list included.
C23_ChangesAreReported ==
    pc = "returned"
    => /\ (~opts_test /\ MutateSucceeded) => ret.changes.keys # {}
       /\ (ret.changes.keys = {} /\ ret.result = ResTrue)
             => ~Invoked(MailmanMutate \cup LvmMutate)

\* C24: address normalization.  Every member address list_present passes on
\* to a mutation (the lines add_member hands to the subscribe tool, the lines
\* remove_member hands to the unsubscribe tool) is the bare address, the
\* display name stripped, for every entry given as 'Display Name <address>'.
C24_AddressesAreBare ==
    (op = "list_present" /\ pre.mm.exists)
    => \A i \in DOMAIN calls :
          /\ calls[i].fn = "add_member"
                => \A x \in Range(AddMembersInput(calls[i].arg)) : x.name = ""
          /\ calls[i].fn = "remove_member"
                => \A x \in Range(RemoveMembersInput(calls[i].arg)) : x.name = ""

====
